---- MODULE Spec2Model ----
(***************************************************************************)
(* Model of node_manager_daemon_fkie/settings.py: class Settings.          *)
(*                                                                         *)
(* A configuration value (a Python object held in self._cfg or produced by *)
(* yaml.load) is a record [t, v, m]:                                       *)
(*   t = "s": a scalar (bool, number, string or None), v is its printed    *)
(*            form ("True", "15.0", "", "None"; "0" and "0.0" are the      *)
(*            numbers), m is the empty map;                                *)
(*   t = "d": a dict, m maps its string keys to configuration values.      *)
(* A path string is held as the sequence of its '/'-separated segments,    *)
(* i.e. as the list that str.split('/') returns for it.                    *)
(***************************************************************************)
EXTENDS Integers, Sequences, FiniteSets, TLC

VARIABLES cfg, file, callbacks, last, nops, pc, loc, mutex, seen, stack, rounds

vars == <<cfg, file, callbacks, last, nops, pc, loc, mutex, seen, stack, rounds>>

(***************************************************************************)
(* Bounds of the model.                                                    *)
(***************************************************************************)
MaxOps == 2

(***************************************************************************)
(* Python values.                                                          *)
(***************************************************************************)
NoKids == [k \in {} |-> 0]

S(v) == [t |-> "s", v |-> v, m |-> NoKids]

D(m) == [t |-> "d", v |-> "", m |-> m]

PyNone == S("None")

PyFalse == S("False")

PyTrue == S("True")

IsDict(value) == value.t = "d"

Has(value, key) == IsDict(value) /\ key \in DOMAIN value.m

\* bool(value) as Python's 'if value:' evaluates it
Truthy(value) ==
    IF IsDict(value) THEN DOMAIN value.m # {}
    ELSE value.v \notin {"False", "None", "", "0", "0.0"}

Version == "1.0"

Filename == "node_manager_daemon.yaml"

LogPath == ".ros/log/"

default ==
    D(  "global" :> D(  "version" :> D(":value" :> S(Version) @@ ":ro" :> PyTrue)
                     @@ "file" :> D(":value" :> S(Filename) @@ ":ro" :> PyTrue)
                     @@ "grpc_timeout" :> D(  ":value" :> S("15.0")
                                           @@ ":min" :> S("0")
                                           @@ ":default" :> S("15.0")
                                           @@ ":hint" :> S("timeout for connection to remote gRPC-server"))
                     @@ "only_diagnostics_agg" :> PyFalse
                     @@ "reset" :> PyFalse)
     @@ "sysmon" :> D(  "CPU" :> D("load_warn_level" :> S("0.9"))
                     @@ "Disk" :> D(  "usage_warn_level" :> D(  ":value" :> S("100")
                                                             @@ ":default" :> S("100.0")
                                                             @@ ":hint" :> S("values in MB"))
                                   @@ "path" :> S(LogPath))
                     @@ "Memory" :> D("usage_warn_level" :> D(  ":value" :> S("100")
                                                             @@ ":default" :> S("100.0")
                                                             @@ ":hint" :> S("values in MB")))
                     @@ "Network" :> D(  "load_warn_level" :> D(  ":value" :> S("0.9")
                                                               @@ ":default" :> S("0.9")
                                                               @@ ":hint" :> S("Percent of the maximum speed"))
                                      @@ "speed" :> D(  ":value" :> S("6")
                                                     @@ ":default" :> S("6")
                                                     @@ ":hint" :> S("Maximal speed in MBit"))
                                      @@ "interface" :> S(""))))

(***************************************************************************)
(* yaml.dump / yaml.load.  A YAML text is a sequence of tokens; a mapping  *)
(* is written with its keys in sorted order.                               *)
(***************************************************************************)
KeyOrder ==
    << "", ":default", ":hint", ":max", ":min", ":ro", ":value",
       "CPU", "Disk", "Memory", "Network", "deep", "extra", "file",
       "global", "grpc_timeout", "interface", "load_warn_level",
       "only_diagnostics_agg", "p", "path", "reset", "speed", "sysmon",
       "top", "usage_warn_level", "version", "x" >>

Tok(k, s) == [k |-> k, s |-> s]

RECURSIVE Dump(_)
RECURSIVE DumpKeys(_, _)

DumpKeys(value, i) ==
    IF i > Len(KeyOrder) THEN << >>
    ELSE (IF KeyOrder[i] \in DOMAIN value.m
          THEN <<Tok("key", KeyOrder[i])>> \o Dump(value.m[KeyOrder[i]])
          ELSE << >>) \o DumpKeys(value, i + 1)

Dump(value) ==
    IF IsDict(value)
    THEN <<Tok("open", "")>> \o DumpKeys(value, 1) \o <<Tok("close", "")>>
    ELSE <<Tok("scalar", value.v)>>

RECURSIVE ParseNode(_, _)
RECURSIVE ParseEntries(_, _, _)

ParseFail == [ok |-> FALSE, node |-> PyNone, next |-> 0]

ParseNode(toks, i) ==
    IF i > Len(toks) THEN ParseFail
    ELSE IF toks[i].k = "scalar" THEN [ok |-> TRUE, node |-> S(toks[i].s), next |-> i + 1]
    ELSE IF toks[i].k = "open" THEN ParseEntries(toks, i + 1, NoKids)
    ELSE ParseFail

ParseEntries(toks, i, acc) ==
    IF i > Len(toks) THEN ParseFail
    ELSE IF toks[i].k = "close" THEN [ok |-> TRUE, node |-> D(acc), next |-> i + 1]
    ELSE IF toks[i].k = "key"
         THEN LET r == ParseNode(toks, i + 1)
              IN  IF r.ok THEN ParseEntries(toks, r.next, (toks[i].s :> r.node) @@ acc)
                  ELSE ParseFail
    ELSE ParseFail

\* yaml.load(text): [ok |-> FALSE] stands for a raised yaml.YAMLError;
\* an empty document loads as None
Load(toks) ==
    IF toks = << >> THEN [ok |-> TRUE, node |-> PyNone]
    ELSE LET r == ParseNode(toks, 1)
         IN  IF r.ok /\ r.next = Len(toks) + 1 THEN [ok |-> TRUE, node |-> r.node]
             ELSE [ok |-> FALSE, node |-> PyNone]

(***************************************************************************)
(* Settings._is_writable                                                   *)
(***************************************************************************)
_is_writable(value) ==
    IF ":ro" \in DOMAIN value.m THEN Truthy(value.m[":ro"]) ELSE TRUE

(***************************************************************************)
(* Settings.param                                                          *)
(***************************************************************************)
RECURSIVE Walk(_, _, _)

\* the loop 'for item in path: value = value[item]'; ok = FALSE when an
\* exception (KeyError, TypeError) ends it
Walk(value, path, i) ==
    IF i > Len(path) THEN [ok |-> TRUE, node |-> value]
    ELSE IF Has(value, path[i]) THEN Walk(value.m[path[i]], path, i + 1)
    ELSE [ok |-> FALSE, node |-> value]

\* param with the test of extract_value left out at line 122
paramAlwaysExtracts(tree, param_name, default_value, extract_value) ==
    LET w == Walk(tree, param_name, 1)
    IN  IF ~w.ok THEN default_value
        ELSE IF IsDict(w.node)
             THEN IF ":value" \in DOMAIN w.node.m
                  THEN w.node.m[":value"]
                  ELSE w.node
        ELSE w.node

param(tree, param_name, default_value, extract_value) ==
    LET w == Walk(tree, param_name, 1)
    IN  IF ~w.ok THEN default_value
        ELSE IF IsDict(w.node)
             THEN IF extract_value /\ ":value" \in DOMAIN w.node.m
                  THEN w.node.m[":value"]
                  ELSE w.node
        ELSE w.node

(***************************************************************************)
(* Settings._apply_recursive                                               *)
(***************************************************************************)
MarkerKeys == {":hint", ":default", ":ro", ":min", ":max"}

RECURSIVE _apply_recursive(_, _)

\* the keys of curr_value that receive an entry in new_cfg: a dict that
\* is not writable gets none (the 'if' at line 208 has no else branch)
MergedKeys(curr_value) ==
    {key \in DOMAIN curr_value.m :
        IsDict(curr_value.m[key]) => _is_writable(curr_value.m[key])}

MergedEntry(new_data, key, value) ==
    IF IsDict(value)
    THEN IF Has(new_data, key) THEN _apply_recursive(new_data.m[key], value)
         ELSE value
    ELSE IF key \notin MarkerKeys
         THEN IF IsDict(new_data)
              THEN IF key \in DOMAIN new_data.m THEN new_data.m[key] ELSE value
              ELSE new_data
    ELSE value

_apply_recursive(new_data, curr_value) ==
    D([key \in MergedKeys(curr_value) |-> MergedEntry(new_data, key, curr_value.m[key])])

(***************************************************************************)
(* os.path.dirname(p).split('/') and os.path.basename(p) on a path held as *)
(* its list of segments.                                                   *)
(***************************************************************************)
RECURSIVE LastNonEmpty(_, _)

\* the largest j <= i with path[j] # "", 0 when there is none
LastNonEmpty(path, i) ==
    IF i = 0 THEN 0
    ELSE IF path[i] # "" THEN i
    ELSE LastNonEmpty(path, i - 1)

\* head = p[:rfind('/') + 1]; a head that is not all slashes loses its
\* trailing slashes
dirname(path) ==
    LET n == Len(path)
        j == LastNonEmpty(path, n - 1)
    IN  IF n = 1 THEN <<"">>
        ELSE IF j = 0 THEN [i \in 1..n |-> ""]
        ELSE SubSeq(path, 1, j)

basename(path) == path[Len(path)]

(***************************************************************************)
(* Settings.set_param, lines 134-154: the walk along the parent path and   *)
(* the assignment at the last name.  The result carries the tree as the    *)
(* in-place updates leave it and the exception raised, if any.             *)
(***************************************************************************)
SetResult(node, exc) == [node |-> node, exc |-> exc]

\* lines 143-154
SetLeaf(cfg_item, pname, value) ==
    IF ~IsDict(cfg_item) THEN SetResult(cfg_item, "TypeError")
    ELSE IF pname \in DOMAIN cfg_item.m
         THEN IF IsDict(cfg_item.m[pname])
              THEN IF _is_writable(cfg_item.m[pname])
                   THEN SetResult(D([cfg_item.m EXCEPT ![pname] =
                                        D((":value" :> value) @@ cfg_item.m[pname].m)]), "none")
                   ELSE SetResult(cfg_item, "read only")
              ELSE SetResult(D([cfg_item.m EXCEPT ![pname] = value]), "none")
    ELSE SetResult(D((pname :> D(":value" :> value)) @@ cfg_item.m), "none")

RECURSIVE SetWalk(_, _, _, _, _)

\* lines 136-142, then SetLeaf
SetWalk(cfg_item, path, i, pname, value) ==
    IF i > Len(path) THEN SetLeaf(cfg_item, pname, value)
    ELSE IF path[i] = "" THEN SetWalk(cfg_item, path, i + 1, pname, value)
    ELSE IF ~IsDict(cfg_item) THEN SetResult(cfg_item, "TypeError")
    ELSE IF path[i] \in DOMAIN cfg_item.m
         THEN LET r == SetWalk(cfg_item.m[path[i]], path, i + 1, pname, value)
              IN  SetResult(D([cfg_item.m EXCEPT ![path[i]] = r.node]), r.exc)
    ELSE LET r == SetWalk(D(NoKids), path, i + 1, pname, value)
         IN  SetResult(D((path[i] :> r.node) @@ cfg_item.m), r.exc)

SetTree(tree, param_name, value) ==
    SetWalk(tree, dirname(param_name), 1, basename(param_name), value)

(***************************************************************************)
(* Inputs of the operations.                                               *)
(***************************************************************************)
Callbacks == {"cb1", "cb2"}

ParamNames ==
    { <<"global", "version">>,             \* leaf with ':ro': True
      <<"global", "grpc_timeout">>,        \* leaf with metadata
      <<"global", "reset">>,               \* bare scalar
      <<"", "top">>,                       \* '/top'
      <<"extra", "deep", "p">>,            \* parent groups missing
      <<"global", "version", ":ro">>,      \* a marker entry of a leaf
      <<"global", "reset", "x">> }         \* below a bare scalar

ParamValues == {S("False"), S("20.0")}

Malformed == <<Tok("open", "")>>

Payloads ==
    { Dump(D("global" :> D("grpc_timeout" :> S("99.0")))),
      Dump(D("global" :> D("reset" :> PyTrue @@ "grpc_timeout" :> S("99.0")))),
      Dump(D("global" :> D("version" :> S("x")))),
      Dump(D("global" :> D("reset" :> D(NoKids)))),
      Dump(D("sysmon" :> D("CPU" :> S("5")))),
      Dump(D("global" :> D(  "grpc_timeout" :> D(":value" :> S("50.0") @@ ":min" :> S("5"))
                          @@ "only_diagnostics_agg" :> D("x" :> S("1"))))),
      Malformed }

NoFile == [exists |-> FALSE, txt |-> << >>]

FileOf(txt) == [exists |-> TRUE, txt |-> txt]

\* what the backing file holds when the store is constructed
InitialFiles == {NoFile, FileOf(<< >>), FileOf(Malformed)}

(***************************************************************************)
(* The store, one operation per step.                                      *)
(***************************************************************************)
Op(op, arg, value, data, extract, cb, call, exc, raised, ret) ==
    [op |-> op, arg |-> arg, value |-> value, data |-> data, extract |-> extract,
     cb |-> cb, call |-> call, exc |-> exc, raised |-> raised, ret |-> ret,
     pre |-> cfg, prefile |-> file, precbs |-> callbacks]

\* a callback invoked with the store: what it can read from it
Invocation(by, callback, tree, f) == [by |-> by, cb |-> callback, cfg |-> tree, file |-> f]

\* Settings._notify_reload_callbacks
Notified(by, cbs, tree, f) == [i \in 1..Len(cbs) |-> Invocation(by, cbs[i], tree, f)]

\* Settings.reload, lines 165-172: the tree after the load
Loaded(f) ==
    IF ~f.exists THEN [exc |-> "IOError", node |-> default]
    ELSE IF ~Load(f.txt).ok THEN [exc |-> "YAMLError", node |-> default]
    ELSE [exc |-> "none", node |-> Load(f.txt).node]

Threads == {"t1", "t2"}

Idle == [t \in Threads |-> "idle"]

\* the locals of a call: its arguments, the exception it ended with, and
\* for apply whether it reset, the tree _apply_recursive returned and the
\* tree it was computed from
NoLocal == [op |-> "", path |-> << >>, value |-> PyNone, data |-> << >>, cb |-> "",
            call |-> FALSE, exc |-> "none", reset |-> FALSE, tree |-> PyNone,
            old |-> PyNone]

NoLocals == [t \in Threads |-> NoLocal]

Unlocked == [owner |-> "", count |-> 0]

\* Settings.__init__
Init ==
    \E f \in InitialFiles :
        /\ file = f
        /\ cfg = Loaded(f).node
        /\ callbacks = << >>
        /\ seen = << >>
        /\ nops = 0
        /\ last = [op |-> "init", arg |-> << >>, value |-> PyNone, data |-> << >>,
                   extract |-> FALSE, cb |-> "", call |-> FALSE,
                   exc |-> Loaded(f).exc, raised |-> FALSE, ret |-> PyNone,
                   pre |-> PyNone, prefile |-> f, precbs |-> << >>]
        /\ pc = Idle
        /\ loc = NoLocals
        /\ mutex = Unlocked
        /\ stack = << >>
        /\ rounds = 0

Step == /\ nops < MaxOps
        /\ nops' = nops + 1
        /\ UNCHANGED <<pc, loc, mutex, stack, rounds>>

\* Settings.param
Param(param_name, default_value, extract_value) ==
    /\ Step
    /\ last' = Op("param", param_name, default_value, << >>, extract_value, "", FALSE,
                  "none", FALSE, param(cfg, param_name, default_value, extract_value))
    /\ seen' = << >>
    /\ UNCHANGED <<cfg, file, callbacks>>

\* Settings.set_param; diskOk: open(self.filename, 'w') in save succeeds
SetParam(param_name, value, diskOk) ==
    LET r == SetTree(cfg, param_name, value)
        exc == IF r.exc # "none" THEN r.exc
               ELSE IF ~diskOk THEN "IOError" ELSE "none"
    IN  /\ Step
        /\ cfg' = r.node
        /\ file' = IF exc = "none" THEN FileOf(Dump(r.node)) ELSE file
        /\ last' = Op("set_param", param_name, value, << >>, FALSE, "", FALSE,
                      exc, FALSE, PyNone)
        /\ seen' = << >>
        /\ UNCHANGED callbacks

\* Settings.reload
Reload ==
    /\ Step
    /\ cfg' = Loaded(file).node
    /\ seen' = Notified("reload", callbacks, Loaded(file).node, file)
    /\ last' = Op("reload", << >>, PyNone, << >>, FALSE, "", FALSE,
                  Loaded(file).exc, FALSE, PyNone)
    /\ UNCHANGED <<file, callbacks>>

\* Settings.save
Save(diskOk) ==
    /\ Step
    /\ file' = IF diskOk THEN FileOf(Dump(cfg)) ELSE file
    /\ last' = Op("save", << >>, PyNone, << >>, FALSE, "", FALSE,
                  IF diskOk THEN "none" ELSE "IOError", ~diskOk, PyNone)
    /\ seen' = << >>
    /\ UNCHANGED <<cfg, callbacks>>

\* lines 193-197: the tree apply assigns to self._cfg
Applied(new_data, tree) ==
    LET merged == _apply_recursive(new_data, tree)
        do_reset == param(merged, <<"global", "reset">>, PyFalse, TRUE)
    IN  IF Truthy(do_reset) THEN default ELSE merged

\* Settings.apply
Apply(data, diskOk) ==
    LET ld == Load(data)
        exc == IF ~ld.ok THEN "YAMLError"
               ELSE IF ~IsDict(cfg) THEN "AttributeError"
               ELSE IF ~diskOk THEN "IOError" ELSE "none"
        final == IF exc \in {"YAMLError", "AttributeError"} THEN cfg
                 ELSE Applied(ld.node, cfg)
    IN  /\ Step
        /\ cfg' = final
        /\ file' = IF exc = "none" THEN FileOf(Dump(final)) ELSE file
        /\ seen' = IF exc = "none" THEN Notified("apply", callbacks, final, FileOf(Dump(final)))
                   ELSE << >>
        /\ last' = Op("apply", << >>, PyNone, data, FALSE, "", FALSE,
                      exc, exc # "none", PyNone)
        /\ UNCHANGED callbacks

IsIn(callback, cbs) == \E i \in 1..Len(cbs) : cbs[i] = callback

\* add_reload_listener with 'if call:' taken out of the 'not in' branch
AddReloadListenerCallsAlways(callback, call) ==
    /\ Step
    /\ callbacks' = IF IsIn(callback, callbacks) THEN callbacks
                    ELSE Append(callbacks, callback)
    /\ seen' = IF call
               THEN <<Invocation("add_reload_listener", callback, cfg, file)>> ELSE << >>
    /\ last' = Op("add_reload_listener", << >>, PyNone, << >>, FALSE, callback, call,
                  "none", FALSE, PyNone)
    /\ UNCHANGED <<cfg, file>>

\* Settings.add_reload_listener
AddReloadListener(callback, call) ==
    /\ Step
    /\ callbacks' = IF IsIn(callback, callbacks) THEN callbacks
                    ELSE Append(callbacks, callback)
    /\ seen' = IF ~IsIn(callback, callbacks) /\ call
               THEN <<Invocation("add_reload_listener", callback, cfg, file)>> ELSE << >>
    /\ last' = Op("add_reload_listener", << >>, PyNone, << >>, FALSE, callback, call,
                  "none", FALSE, PyNone)
    /\ UNCHANGED <<cfg, file>>

Next ==
    \/ \E n \in ParamNames, e \in BOOLEAN : Param(n, S("dflt"), e)
    \/ \E n \in ParamNames, v \in ParamValues, ok \in BOOLEAN : SetParam(n, v, ok)
    \/ Reload
    \/ \E ok \in BOOLEAN : Save(ok)
    \/ \E data \in Payloads \cup {Dump(cfg)}, ok \in BOOLEAN : Apply(data, ok)
    \/ \E c \in Callbacks, call \in BOOLEAN : AddReloadListener(c, call)

Spec == Init /\ [][Next]_vars

(***************************************************************************)
(* The store used by several threads.  A thread is inside an operation     *)
(* from its call to its return; pc[t] names the statement it executes      *)
(* next.  reload, apply and add_reload_listener run 'with self._mutex'     *)
(* (a threading.RLock); param, set_param and save do not take the lock.    *)
(***************************************************************************)
MaxThreadOps == 3

ThreadParamNames ==
    { <<"global", "grpc_timeout">>,           \* leaf with metadata
      <<"global", "only_diagnostics_agg">>,   \* bare scalar
      <<"global", "reset", "x">> }            \* below a bare scalar

ThreadPayloads ==
    { Dump(D("global" :> D("grpc_timeout" :> S("99.0")))),
      Dump(D("global" :> D("reset" :> PyTrue))),
      Malformed }

ThreadCallbacks == {"cb1"}

\* a lock that its owner cannot acquire again (threading.Lock)
CanAcquireNotReentrant(t) == mutex.owner = ""

\* RLock.acquire succeeds for a free lock and for its owner
CanAcquire(t) == mutex.owner \in {"", t}

Acquired(t) == [owner |-> t, count |-> mutex.count + 1]

Released == IF mutex.count = 1 THEN Unlocked
            ELSE [owner |-> mutex.owner, count |-> mutex.count - 1]

Goto(t, label) ==
    /\ pc' = [pc EXCEPT ![t] = label]
    /\ UNCHANGED <<stack, rounds>>

\* thread t calls an operation of the store
Call(t, label, locals) ==
    /\ pc[t] = "idle"
    /\ nops < MaxThreadOps
    /\ nops' = nops + 1
    /\ Goto(t, label)
    /\ loc' = [loc EXCEPT ![t] = [locals EXCEPT !.op = label]]
    /\ UNCHANGED <<cfg, file, callbacks, last, mutex, seen>>

CallParam(t, param_name) ==
    Call(t, "param", [NoLocal EXCEPT !.path = param_name, !.value = S("dflt")])

CallSetParam(t, param_name, value) ==
    Call(t, "set_param", [NoLocal EXCEPT !.path = param_name, !.value = value])

CallSave(t) == Call(t, "save", NoLocal)

CallReload(t) == Call(t, "reload", NoLocal)

CallApply(t, data) == Call(t, "apply", [NoLocal EXCEPT !.data = data])

CallAddReloadListener(t, callback, call) ==
    Call(t, "add_reload_listener", [NoLocal EXCEPT !.cb = callback, !.call = call])

\* param, lines 112-130; the result is left in the thread's locals
ParamRead(t) ==
    /\ pc[t] = "param"
    /\ loc' = [loc EXCEPT ![t].value = param(cfg, loc[t].path, loc[t].value, TRUE)]
    /\ Goto(t, "idle")
    /\ UNCHANGED <<cfg, file, callbacks, last, nops, mutex, seen>>

RECURSIVE TouchedFrom(_, _, _, _, _)

\* set_param, lines 136-154: the path of the dict object the call writes
\* into: the dict in which the first missing group is created, else the
\* dict found at the last name, else the dict that holds the last name
TouchedFrom(cfg_item, path, i, pname, at) ==
    IF i > Len(path)
    THEN IF Has(cfg_item, pname) /\ IsDict(cfg_item.m[pname]) THEN Append(at, pname) ELSE at
    ELSE IF path[i] = "" THEN TouchedFrom(cfg_item, path, i + 1, pname, at)
    ELSE IF Has(cfg_item, path[i])
         THEN TouchedFrom(cfg_item.m[path[i]], path, i + 1, pname, Append(at, path[i]))
    ELSE at

Touched(tree, param_name) ==
    TouchedFrom(tree, dirname(param_name), 1, basename(param_name), << >>)

RECURSIVE Shared(_, _, _, _)

\* _apply_recursive, lines 204-220: the dict object at path[i..] below
\* curr_value is also part of the returned tree.  new_cfg is a new dict at
\* every level the recursion enters; a dict is taken over as it is by
\* 'new_cfg[key] = value' (line 220) when new_data[key] raises
Shared(new_data, curr_value, path, i) ==
    IF i > Len(path) THEN FALSE
    ELSE IF ~Has(curr_value, path[i]) THEN FALSE
    ELSE LET value == curr_value.m[path[i]]
         IN  IF ~IsDict(value) THEN FALSE
             ELSE IF ~_is_writable(value) THEN FALSE
             ELSE IF Has(new_data, path[i])
                  THEN Shared(new_data.m[path[i]], value, path, i + 1)
             ELSE TRUE

\* set_param, lines 134-154.  The writes are made in place, so a tree that
\* another thread's _apply_recursive has returned and not yet assigned
\* shows them where it shares the dict written into
SetParamWrite(t) ==
    LET r == SetTree(cfg, loc[t].path, loc[t].value)
        at == Touched(cfg, loc[t].path)
        Sees(u) == /\ r.exc = "none"
                   /\ pc[u] = "apply_assign"
                   /\ Shared(Load(loc[u].data).node, loc[u].old, at, 1)
    IN  /\ pc[t] = "set_param"
        /\ cfg' = r.node
        /\ loc' = [u \in Threads |->
                      IF u = t THEN [loc[t] EXCEPT !.exc = r.exc]
                      ELSE IF Sees(u)
                           THEN [loc[u] EXCEPT !.tree =
                                    SetTree(loc[u].tree, loc[t].path, loc[t].value).node]
                      ELSE loc[u]]
        /\ Goto(t, IF r.exc = "none" THEN "set_param_save" ELSE "idle")
        /\ UNCHANGED <<file, callbacks, last, nops, mutex, seen>>

\* set_param, line 155
SetParamSave(t) ==
    /\ pc[t] = "set_param_save"
    /\ file' = FileOf(Dump(cfg))
    /\ Goto(t, "idle")
    /\ UNCHANGED <<cfg, callbacks, last, nops, loc, mutex, seen>>

\* save, lines 176-179
SaveWrite(t) ==
    /\ pc[t] = "save"
    /\ file' = FileOf(Dump(cfg))
    /\ Goto(t, "idle")
    /\ UNCHANGED <<cfg, callbacks, last, nops, loc, mutex, seen>>

\* 'with self._mutex:' of reload, apply and add_reload_listener
Lock(t) ==
    /\ pc[t] \in {"reload", "apply", "add_reload_listener"}
    /\ CanAcquire(t)
    /\ mutex' = Acquired(t)
    /\ Goto(t, CASE pc[t] = "reload" -> "reload_load"
                 [] pc[t] = "apply" -> "apply_merge"
                 [] OTHER -> "add_listener")
    /\ UNCHANGED <<cfg, file, callbacks, last, nops, loc, seen>>

\* the end of the 'with self._mutex:' block
Unlock(t) ==
    /\ pc[t] = "unlock"
    /\ mutex' = Released
    /\ Goto(t, "idle")
    /\ UNCHANGED <<cfg, file, callbacks, last, nops, loc, seen>>

\* reload, lines 165-172
ReloadLoad(t) ==
    /\ pc[t] = "reload_load"
    /\ cfg' = Loaded(file).node
    /\ Goto(t, "reload_notify")
    /\ UNCHANGED <<file, callbacks, last, nops, loc, mutex, seen>>

\* reload, line 173, and apply, line 201: _notify_reload_callbacks takes
\* the lock its caller already holds and gives it back
Notify(t) ==
    /\ pc[t] \in {"reload_notify", "apply_notify"}
    /\ CanAcquire(t)
    /\ seen' = Notified(IF pc[t] = "reload_notify" THEN "reload" ELSE "apply",
                        callbacks, cfg, file)
    /\ Goto(t, "unlock")
    /\ UNCHANGED <<cfg, file, callbacks, last, nops, loc, mutex>>

\* apply, line 193, the right-hand side; an exception of yaml.load or of
\* curr_value.items() leaves the 'with' block
ApplyMerge(t) ==
    /\ pc[t] = "apply_merge"
    /\ IF Load(loc[t].data).ok /\ IsDict(cfg)
       THEN /\ loc' = [loc EXCEPT ![t].tree = _apply_recursive(Load(loc[t].data).node, cfg),
                                   ![t].old = cfg]
            /\ Goto(t, "apply_assign")
       ELSE /\ loc' = [loc EXCEPT ![t].exc = IF Load(loc[t].data).ok THEN "AttributeError"
                                             ELSE "YAMLError"]
            /\ Goto(t, "unlock")
    /\ UNCHANGED <<cfg, file, callbacks, last, nops, mutex, seen>>

\* apply, line 193, the assignment to self._cfg
ApplyAssign(t) ==
    /\ pc[t] = "apply_assign"
    /\ cfg' = loc[t].tree
    /\ Goto(t, "apply_reset")
    /\ UNCHANGED <<file, callbacks, last, nops, loc, mutex, seen>>

\* apply, lines 194-199
ApplyReset(t) ==
    LET do_reset == Truthy(param(cfg, <<"global", "reset">>, PyFalse, TRUE))
    IN  /\ pc[t] = "apply_reset"
        /\ cfg' = IF do_reset THEN default ELSE cfg
        /\ loc' = [loc EXCEPT ![t].reset = do_reset]
        /\ Goto(t, "apply_save")
        /\ UNCHANGED <<file, callbacks, last, nops, mutex, seen>>

\* apply, line 200
ApplySave(t) ==
    /\ pc[t] = "apply_save"
    /\ file' = FileOf(Dump(cfg))
    /\ Goto(t, "apply_notify")
    /\ UNCHANGED <<cfg, callbacks, last, nops, loc, mutex, seen>>

\* add_reload_listener, lines 235-238
AddListener(t) ==
    /\ pc[t] = "add_listener"
    /\ callbacks' = IF IsIn(loc[t].cb, callbacks) THEN callbacks
                    ELSE Append(callbacks, loc[t].cb)
    /\ seen' = IF ~IsIn(loc[t].cb, callbacks) /\ loc[t].call
               THEN <<Invocation("add_reload_listener", loc[t].cb, cfg, file)>> ELSE seen
    /\ Goto(t, "unlock")
    /\ UNCHANGED <<cfg, file, last, nops, loc, mutex>>

ThreadNext ==
    \E t \in Threads :
        \/ \E n \in ThreadParamNames : CallParam(t, n)
        \/ \E n \in ThreadParamNames : CallSetParam(t, n, S("20.0"))
        \/ CallSave(t)
        \/ CallReload(t)
        \/ \E data \in ThreadPayloads : CallApply(t, data)
        \/ \E c \in ThreadCallbacks, call \in BOOLEAN : CallAddReloadListener(t, c, call)
        \/ ParamRead(t)
        \/ SetParamWrite(t)
        \/ SetParamSave(t)
        \/ SaveWrite(t)
        \/ Lock(t)
        \/ Unlock(t)
        \/ ReloadLoad(t)
        \/ Notify(t)
        \/ ApplyMerge(t)
        \/ ApplyAssign(t)
        \/ ApplyReset(t)
        \/ ApplySave(t)
        \/ AddListener(t)

ThreadSpec == Init /\ [][ThreadNext]_vars

(***************************************************************************)
(* The store used by one thread whose reload listeners call back into it.  *)
(* stack holds the calls in progress, the innermost last: a call of        *)
(* reload, apply, add_reload_listener or param, or a listener being        *)
(* invoked (op "callback").  A listener may return, or call param,         *)
(* add_reload_listener or apply; an exception of such a call it may catch  *)
(* or let pass.  seen collects the invocations made since the outermost    *)
(* call began, rounds counts the loops of _notify_reload_callbacks begun   *)
(* since then.                                                             *)
(***************************************************************************)
MaxReentrantOps == 3

ReentrantPayloads ==
    { Dump(D("global" :> D("grpc_timeout" :> S("99.0")))),
      Malformed }

Self == "t1"

Frame(op, callback, call, data) ==
    [op |-> op,
     pc |-> IF op \in {"param", "callback"} THEN "running" ELSE "lock",
     i |-> 1, cb |-> callback, call |-> call, data |-> data, exc |-> "none"]

Top == stack[Len(stack)]

At(op, label) == stack # << >> /\ Top.op = op /\ Top.pc = label

\* the innermost call goes on at label
Jump(label) == [stack EXCEPT ![Len(stack)].pc = label]

\* the innermost call returns; an exception it ends with arrives in the
\* listener that made the call
Return ==
    IF Len(stack) > 1 /\ Top.exc # "none"
    THEN [SubSeq(stack, 1, Len(stack) - 1) EXCEPT ![Len(stack) - 1].pc = "raised",
                                                  ![Len(stack) - 1].exc = Top.exc]
    ELSE SubSeq(stack, 1, Len(stack) - 1)

LockedOps == {"reload", "apply", "add_reload_listener"}

\* the program calls reload, apply or add_reload_listener
Begin(op, callback, call, data) ==
    /\ stack = << >>
    /\ nops < MaxReentrantOps
    /\ nops' = nops + 1
    /\ stack' = <<Frame(op, callback, call, data)>>
    /\ seen' = << >>
    /\ rounds' = 0
    /\ UNCHANGED <<cfg, file, callbacks, last, pc, loc, mutex>>

\* a listener that is being invoked calls param, add_reload_listener or apply
Nested(op, callback, call, data) ==
    /\ At("callback", "running")
    /\ nops < MaxReentrantOps
    /\ nops' = nops + 1
    /\ stack' = Append(stack, Frame(op, callback, call, data))
    /\ UNCHANGED <<cfg, file, callbacks, last, pc, loc, mutex, seen, rounds>>

\* param, lines 112-130: reads self._cfg, takes no lock
NestedParam ==
    /\ At("param", "running")
    /\ stack' = Return
    /\ UNCHANGED <<cfg, file, callbacks, last, nops, pc, loc, mutex, seen, rounds>>

\* 'with self._mutex:' of reload, apply and add_reload_listener
Enter ==
    /\ stack # << >>
    /\ Top.op \in LockedOps
    /\ Top.pc = "lock"
    /\ CanAcquire(Self)
    /\ mutex' = Acquired(Self)
    /\ stack' = Jump("body")
    /\ UNCHANGED <<cfg, file, callbacks, last, nops, pc, loc, seen, rounds>>

\* reload, lines 165-172
ReloadBody ==
    /\ At("reload", "body")
    /\ cfg' = Loaded(file).node
    /\ stack' = Jump("notify_lock")
    /\ UNCHANGED <<file, callbacks, last, nops, pc, loc, mutex, seen, rounds>>

\* apply, lines 193-200; an exception of line 193 leaves the 'with' block
ApplyBody ==
    LET ld == Load(Top.data)
        exc == IF ~ld.ok THEN "YAMLError"
               ELSE IF ~IsDict(cfg) THEN "AttributeError" ELSE "none"
        final == IF exc = "none" THEN Applied(ld.node, cfg) ELSE cfg
    IN  /\ At("apply", "body")
        /\ cfg' = final
        /\ file' = IF exc = "none" THEN FileOf(Dump(final)) ELSE file
        /\ stack' = IF exc = "none" THEN Jump("notify_lock")
                    ELSE [stack EXCEPT ![Len(stack)].pc = "unlock",
                                       ![Len(stack)].exc = exc]
        /\ UNCHANGED <<callbacks, last, nops, pc, loc, mutex, seen, rounds>>

\* add_reload_listener, lines 235-238
AddBody ==
    LET added == ~IsIn(Top.cb, callbacks)
    IN  /\ At("add_reload_listener", "body")
        /\ callbacks' = IF added THEN Append(callbacks, Top.cb) ELSE callbacks
        /\ seen' = IF added /\ Top.call
                   THEN Append(seen, Invocation("add_reload_listener", Top.cb, cfg, file))
                   ELSE seen
        /\ stack' = IF added /\ Top.call
                    THEN Append(Jump("unlock"), Frame("callback", Top.cb, FALSE, << >>))
                    ELSE Jump("unlock")
        /\ UNCHANGED <<cfg, file, last, nops, pc, loc, mutex, rounds>>

\* _notify_reload_callbacks, line 241: the lock its caller holds is taken
\* once more
NotifyEnter ==
    /\ stack # << >>
    /\ Top.pc = "notify_lock"
    /\ CanAcquire(Self)
    /\ mutex' = Acquired(Self)
    /\ rounds' = rounds + 1
    /\ stack' = [stack EXCEPT ![Len(stack)].pc = "notify", ![Len(stack)].i = 1]
    /\ UNCHANGED <<cfg, file, callbacks, last, nops, pc, loc, seen>>

\* _notify_reload_callbacks, lines 242-243: the for loop asks the list
\* self._reload_callbacks itself for its next element
NotifyNext ==
    /\ stack # << >>
    /\ Top.pc = "notify"
    /\ IF Top.i <= Len(callbacks)
       THEN /\ seen' = Append(seen, Invocation(Top.op, callbacks[Top.i], cfg, file))
            /\ stack' = Append([stack EXCEPT ![Len(stack)].i = Top.i + 1],
                               Frame("callback", callbacks[Top.i], FALSE, << >>))
       ELSE /\ seen' = seen
            /\ stack' = Jump("notify_unlock")
    /\ UNCHANGED <<cfg, file, callbacks, last, nops, pc, loc, mutex, rounds>>

\* the end of the 'with self._mutex:' block of _notify_reload_callbacks
NotifyLeave ==
    /\ stack # << >>
    /\ Top.pc = "notify_unlock"
    /\ mutex' = Released
    /\ stack' = Jump("unlock")
    /\ UNCHANGED <<cfg, file, callbacks, last, nops, pc, loc, seen, rounds>>

\* the end of the 'with self._mutex:' block of reload, apply and
\* add_reload_listener, and the return
Leave ==
    /\ stack # << >>
    /\ Top.op \in LockedOps
    /\ Top.pc = "unlock"
    /\ mutex' = Released
    /\ stack' = Return
    /\ UNCHANGED <<cfg, file, callbacks, last, nops, pc, loc, seen, rounds>>

\* callback(self) returns
CallbackReturn ==
    /\ At("callback", "running")
    /\ stack' = SubSeq(stack, 1, Len(stack) - 1)
    /\ UNCHANGED <<cfg, file, callbacks, last, nops, pc, loc, mutex, seen, rounds>>

\* the listener catches the exception of the call it made
CallbackCatch ==
    /\ At("callback", "raised")
    /\ stack' = Jump("running")
    /\ UNCHANGED <<cfg, file, callbacks, last, nops, pc, loc, mutex, seen, rounds>>

\* the listener lets the exception pass: it ends the for loop of lines
\* 242-243, or arrives in add_reload_listener after line 238
CallbackRaise ==
    LET below == Len(stack) - 1
    IN  /\ At("callback", "raised")
        /\ stack' = [SubSeq(stack, 1, below) EXCEPT
                        ![below].pc = IF stack[below].pc = "notify" THEN "notify_unlock"
                                      ELSE stack[below].pc,
                        ![below].exc = "Exception"]
        /\ UNCHANGED <<cfg, file, callbacks, last, nops, pc, loc, mutex, seen, rounds>>

\* the steps of the store and of its listeners
ReentrantRun ==
    \/ Nested("param", "", FALSE, << >>)
    \/ \E c \in Callbacks, call \in BOOLEAN : Nested("add_reload_listener", c, call, << >>)
    \/ \E data \in ReentrantPayloads : Nested("apply", "", FALSE, data)
    \/ NestedParam
    \/ Enter
    \/ ReloadBody
    \/ ApplyBody
    \/ AddBody
    \/ NotifyEnter
    \/ NotifyNext
    \/ NotifyLeave
    \/ Leave
    \/ CallbackReturn
    \/ CallbackCatch
    \/ CallbackRaise

ReentrantNext ==
    \/ Begin("reload", "", FALSE, << >>)
    \/ \E data \in ReentrantPayloads : Begin("apply", "", FALSE, data)
    \/ \E c \in Callbacks, call \in BOOLEAN : Begin("add_reload_listener", c, call, << >>)
    \/ ReentrantRun

ReentrantSpec == Init /\ [][ReentrantNext]_vars

\* RLock.acquire returns once the lock can be acquired: a thread that asks
\* for a lock it can get is not held up forever
FairReentrantSpec == ReentrantSpec /\ WF_vars(Enter) /\ WF_vars(NotifyEnter)

(***************************************************************************)
(* Notions the properties are stated with.                                 *)
(***************************************************************************)
ResetPath == <<"global", "reset">>

\* the payload of the last apply, parsed
LastPayload == Load(last.data).node

\* the last operation was an apply that got as far as assigning self._cfg
Merged == last.op = "apply" /\ last.exc \in {"none", "IOError"}

\* ... and it replaced the tree by the default tree
ResetDone ==
    Merged /\ Truthy(param(_apply_recursive(LastPayload, last.pre), ResetPath, PyFalse, TRUE))

\* a leaf with metadata whose read-only marker is True
IsReadOnlyLeaf(tree, path) ==
    LET w == Walk(tree, path, 1)
    IN  /\ w.ok
        /\ IsDict(w.node)
        /\ ":value" \in DOMAIN w.node.m
        /\ ":ro" \in DOMAIN w.node.m
        /\ w.node.m[":ro"] = PyTrue

ReadOnlyPaths == { <<"global", "version">>, <<"global", "file">> }

RECURSIVE PathsOf(_)

\* the paths of all nodes of a tree
PathsOf(node) ==
    IF ~IsDict(node) THEN { << >> }
    ELSE { << >> } \cup UNION { { <<k>> \o q : q \in PathsOf(node.m[k]) } : k \in DOMAIN node.m }

\* the payload names the path: it has an entry at the path, or a scalar at
\* a prefix of it
Named(payload, path) ==
    \E n \in 0..Len(path) :
        LET w == Walk(payload, SubSeq(path, 1, n), 1)
        IN  w.ok /\ (n = Len(path) \/ ~IsDict(w.node))

(***************************************************************************)
(* C1. Read-only invariant: a set_param or an apply that does not reset    *)
(* leaves the value of every leaf marked ':ro': True as it was.            *)
(***************************************************************************)
C1_ReadOnlyValueKept ==
    (last.op \in {"set_param", "apply"} /\ last.exc # "IOError" /\ ~ResetDone) =>
        \A path \in ReadOnlyPaths :
            IsReadOnlyLeaf(last.pre, path) =>
                param(cfg, path, S("absent"), TRUE) = param(last.pre, path, S("absent"), TRUE)

(***************************************************************************)
(* C2. set_param on an existing read-only leaf raises the read-only error  *)
(* to its caller and leaves the tree and the backing file as they were.    *)
(***************************************************************************)
C2_ReadOnlySetRejected ==
    (last.op = "set_param" /\ IsReadOnlyLeaf(last.pre, last.arg)) =>
        /\ last.exc = "read only"
        /\ last.raised
        /\ cfg = last.pre
        /\ file = last.prefile

(***************************************************************************)
(* C3. Reset precedence: an apply whose payload sets global/reset to true  *)
(* leaves the built-in default tree, whatever the tree (a mapping) was.    *)
(***************************************************************************)
C3_ResetPrecedence ==
    (/\ last.op = "apply"
     /\ last.exc = "none"
     /\ IsDict(last.pre)
     /\ param(LastPayload, ResetPath, PyFalse, TRUE) = PyTrue) =>
        cfg = default

(***************************************************************************)
(* C4. Partial apply frame: an apply that does not reset leaves every node *)
(* of the tree that the payload does not name as it was.                   *)
(***************************************************************************)
C4_PartialApplyFrame ==
    (Merged /\ last.exc = "none" /\ ~ResetDone) =>
        \A path \in PathsOf(last.pre) :
            ~Named(LastPayload, path) => Walk(cfg, path, 1) = Walk(last.pre, path, 1)

(***************************************************************************)
(* C5. Idempotence: applying the tree's own serialization (the output of   *)
(* yaml()) leaves the tree unchanged; stated for trees whose global/reset  *)
(* is not set.                                                             *)
(***************************************************************************)
C5_ApplyOwnYamlIdempotent ==
    (/\ last.op = "apply"
     /\ last.exc = "none"
     /\ last.data = Dump(last.pre)
     /\ ~Truthy(param(last.pre, ResetPath, PyFalse, TRUE))) =>
        cfg = last.pre

(***************************************************************************)
(* C6. Notification: every reload and every apply (with a payload that     *)
(* parses, on a tree that is a mapping) invokes each subscribed callback   *)
(* exactly once, in subscription order, on the final tree; the listener    *)
(* list holds no duplicates; set_param invokes no callback.                *)
(***************************************************************************)
NoDuplicates(cbs) == \A i, j \in 1..Len(cbs) : cbs[i] = cbs[j] => i = j

C6_NotifyOncePerListener ==
    /\ NoDuplicates(callbacks)
    /\ last.op = "set_param" => seen = << >>
    /\ (last.op = "reload" \/ (last.op = "apply" /\ last.exc \notin {"YAMLError", "AttributeError"})) =>
          /\ Len(seen) = Len(callbacks)
          /\ \A i \in 1..Len(callbacks) :
                seen[i].cb = callbacks[i] /\ seen[i].cfg = cfg

(***************************************************************************)
(* C7 as claimed: every add_reload_listener(callback, call=True) invokes   *)
(* the callback exactly once with the current store, also when it was      *)
(* already subscribed; with call=False it invokes nothing.                 *)
(***************************************************************************)
C7_SubscribeAlwaysInvokes ==
    last.op = "add_reload_listener" =>
        seen = IF last.call THEN <<Invocation("add_reload_listener", last.cb, cfg, file)>>
               ELSE << >>

(***************************************************************************)
(* C7 amended: add_reload_listener(callback, call=True) invokes the        *)
(* callback exactly once with the current store when the callback was not  *)
(* subscribed before the call; when it was already subscribed, or with     *)
(* call=False, the subscribe call invokes nothing.                         *)
(***************************************************************************)
C7_SubscribeInvokesNewListener ==
    last.op = "add_reload_listener" =>
        /\ (last.call /\ ~IsIn(last.cb, last.precbs)) =>
              seen = <<Invocation("add_reload_listener", last.cb, cfg, file)>>
        /\ (~last.call \/ IsIn(last.cb, last.precbs)) => seen = << >>
        /\ cfg = last.pre /\ file = last.prefile

C7_Witness ==
    /\ last.op = "add_reload_listener"
    /\ last.call
    /\ IsIn(last.cb, last.precbs)
    /\ seen = << >>

(***************************************************************************)
(* C8. Set-then-get: after a set_param(path, v) that succeeded,            *)
(* param(path, d) returns v and not the default d.                         *)
(***************************************************************************)
C8_SetThenGet ==
    (last.op = "set_param" /\ last.exc = "none") =>
        param(cfg, last.arg, S("dflt"), TRUE) = last.value

(***************************************************************************)
(* C9. Write-through persistence: within apply the file is written with    *)
(* the final tree before any reload listener is invoked, so a listener     *)
(* invoked by apply never observes a tree that differs from the file.      *)
(***************************************************************************)
C9_ListenerSeesPersistedTree ==
    \A i \in 1..Len(seen) :
        seen[i].by = "apply" => seen[i].file = FileOf(Dump(seen[i].cfg))

(***************************************************************************)
(* C10. Serialization by the store lock: no state has one thread inside    *)
(* set_param, param or save while another thread is inside apply or        *)
(* reload (past its 'with self._mutex').                                   *)
(***************************************************************************)
InSinglePathOp(t) == pc[t] \in {"param", "set_param", "set_param_save", "save"}

InWholeTreeOp(t) ==
    /\ mutex.owner = t
    /\ pc[t] \in {"reload_load", "reload_notify", "apply_merge", "apply_assign",
                  "apply_reset", "apply_save", "apply_notify"}

C10_MutualExclusion ==
    \A t, u \in Threads : ~(InSinglePathOp(t) /\ InWholeTreeOp(u))

(***************************************************************************)
(* C11. Default fallback on load: a reload from a backing file that does   *)
(* not exist, is malformed or is empty leaves exactly the default tree     *)
(* (so the root is a mapping), raises nothing and notifies the listeners.  *)
(***************************************************************************)
C11_ReloadFallsBackToDefault ==
    (/\ last.op = "reload"
     /\ (~file.exists \/ file.txt = << >> \/ ~Load(file.txt).ok)) =>
        /\ cfg = default
        /\ IsDict(cfg)
        /\ ~last.raised
        /\ seen = Notified("reload", callbacks, cfg, file)

(***************************************************************************)
(* C12. Silent lookup: param raises nothing and changes nothing; it        *)
(* returns the default when a segment of the path is missing or a node on  *)
(* the way is not a mapping, the ':value' of a resolved leaf with metadata *)
(* when extract is true, the whole leaf when extract is false, and a       *)
(* resolved bare scalar whatever extract is.                               *)
(***************************************************************************)
RECURSIVE NodeAt(_, _)

\* the node a path leads to, for a path that resolves
NodeAt(tree, path) ==
    IF path = << >> THEN tree
    ELSE NodeAt(tree, SubSeq(path, 1, Len(path) - 1)).m[path[Len(path)]]

RECURSIVE Resolves(_, _, _)

\* the first n segments of the path name nested entries of mappings
Resolves(tree, path, n) ==
    \/ n = 0
    \/ /\ Resolves(tree, path, n - 1)
       /\ Has(NodeAt(tree, SubSeq(path, 1, n - 1)), path[n])

C13_NonWritableGroupKept ==
    (Merged /\ last.exc = "none" /\ ~ResetDone) =>
        \A path \in PathsOf(last.pre) :
            LET old == Walk(last.pre, path, 1).node
            IN  (path # << >> /\ IsDict(old) /\ ~_is_writable(old)) =>
                    Walk(cfg, path, 1) = Walk(last.pre, path, 1)

IsLeafWithMetadata(node) == IsDict(node) /\ ":value" \in DOMAIN node.m

(***************************************************************************)
(* C14. Per-field merge recovery: where the payload's entry has another    *)
(* variant than the node of the tree (a scalar for a group, a mapping for  *)
(* a bare scalar), an apply without reset keeps the old node.              *)
(***************************************************************************)
C14_VariantMismatchKeepsOld ==
    (Merged /\ last.exc = "none" /\ ~ResetDone) =>
        \A path \in PathsOf(last.pre) :
            LET old == Walk(last.pre, path, 1)
                new == Walk(LastPayload, path, 1)
            IN  (/\ new.ok
                 /\ \/ IsDict(new.node) /\ ~IsDict(old.node)
                    \/ ~IsDict(new.node) /\ IsDict(old.node) /\ ~IsLeafWithMetadata(old.node)) =>
                    Walk(cfg, path, 1) = old

(***************************************************************************)
(* C15. Schema-preserving merge: an apply without reset introduces no      *)
(* parameter: every path of the merged tree is a path of the tree before.  *)
(***************************************************************************)
C15_MergeAddsNoPath ==
    (Merged /\ last.exc = "none" /\ ~ResetDone) =>
        PathsOf(cfg) \subseteq PathsOf(last.pre)

(***************************************************************************)
(* C16. Metadata is immutable under merge: after an apply without reset    *)
(* every leaf with metadata has the marker entries it had before.          *)
(***************************************************************************)
Markers(node) == [key \in DOMAIN node.m \cap MarkerKeys |-> node.m[key]]

C16_MarkersKept ==
    (Merged /\ last.exc = "none" /\ ~ResetDone) =>
        \A path \in PathsOf(last.pre) :
            LET old == Walk(last.pre, path, 1).node
                new == Walk(cfg, path, 1)
            IN  IsLeafWithMetadata(old) =>
                    /\ new.ok
                    /\ IsDict(new.node)
                    /\ Markers(new.node) = Markers(old)

(***************************************************************************)
(* C17. Persistence failure is not escalated: when the backing file cannot *)
(* be written, set_param and apply return without raising, the tree keeps  *)
(* the new content and apply notifies all reload listeners.                *)
(***************************************************************************)
C17_WriteFailureSwallowed ==
    (last.op \in {"set_param", "apply"} /\ last.exc = "IOError") =>
        /\ ~last.raised
        /\ last.op = "apply" =>
              /\ cfg = Applied(LastPayload, last.pre)
              /\ seen = Notified("apply", callbacks, cfg, file)

(***************************************************************************)
(* C19. No lost single-path update: when set_param(p, v) of one thread     *)
(* succeeded and an apply of another thread, whose payload does not name p *)
(* and which did not reset, ran at the same time, then after both have     *)
(* returned param(p) is v and the backing file holds v for p.              *)
(***************************************************************************)
C19_NoLostUpdate ==
    \A t, u \in Threads :
        (/\ t # u
         /\ nops = 2
         /\ pc = Idle
         /\ loc[t].op = "set_param"
         /\ loc[t].exc = "none"
         /\ loc[u].op = "apply"
         /\ loc[u].exc = "none"
         /\ ~loc[u].reset
         /\ ~Named(Load(loc[u].data).node, loc[t].path)) =>
            /\ param(cfg, loc[t].path, S("dflt"), TRUE) = loc[t].value
            /\ file.exists
            /\ Load(file.txt).ok
            /\ param(Load(file.txt).node, loc[t].path, S("dflt"), TRUE) = loc[t].value

(***************************************************************************)
(* C18. Reentrancy without deadlock: a listener that is being invoked and  *)
(* calls add_reload_listener or apply (param takes no lock) acquires the   *)
(* lock its thread already holds and proceeds: a thread that waits for the *)
(* store lock while the lock is held by that same thread does not wait     *)
(* forever.                                                                *)
(***************************************************************************)
WaitsForOwnLock ==
    /\ stack # << >>
    /\ Top.pc \in {"lock", "notify_lock"}
    /\ mutex.owner = Self

C18_ReentrantAcquireProceeds == WaitsForOwnLock ~> ~WaitsForOwnLock

\* a call made by a listener is inside its 'with self._mutex:' block while
\* the notification that invoked the listener holds the lock twice
C18_Witness ==
    /\ Len(stack) >= 3
    /\ stack[Len(stack) - 1].op = "callback"
    /\ stack[Len(stack) - 2].pc = "notify"
    /\ Top.op \in {"add_reload_listener", "apply"}
    /\ Top.pc \in {"body", "notify", "unlock"}
    /\ mutex.owner = Self
    /\ mutex.count >= 3

(***************************************************************************)
(* C20. At most one invocation per notification round: when one reload or  *)
(* apply notified and a listener subscribed a further listener while being *)
(* invoked, no listener has been invoked more than once, the immediate     *)
(* invocation by add_reload_listener counted.                              *)
(***************************************************************************)
InvocationsOf(callback) == { i \in 1..Len(seen) : seen[i].cb = callback }

\* the outermost call is a reload or an apply and its notification is the
\* only one so far
OneRound == rounds = 1 /\ seen # << >> /\ seen[1].by \in {"reload", "apply"}

C20_OncePerRound ==
    OneRound => \A c \in Callbacks : Cardinality(InvocationsOf(c)) <= 1
====
